---- MODULE Spec2Model ----
(***************************************************************************)
(* Model of the agent orchestration engine (src/src/agents/orchestrator.py) *)
(* and of its caller process_query (src/src/frontend/app.py).               *)
(*                                                                         *)
(* A query is a sequence of characters (one-character strings), so that    *)
(* Python's substring test `word in query`, str.lower() and str.upper()    *)
(* are computed rather than assumed.  The character U+017F (LATIN SMALL    *)
(* LETTER LONG S) is written LongS.                                        *)
(***************************************************************************)
EXTENDS Integers, Sequences, FiniteSets, TLC

\* ------------------------------------------------------------------ bounds
\* Number of fragments a composed query is built from.
MaxFragments == 2
\* Largest value of the wall clock time.time().
MaxTime == 2
\* Number of calls of OracleDirectTool.execute_query that are followed.
MaxCalls == 3

\* -------------------------------------------------------------- characters
LongS == "U+017F"

LowerLetters ==
    <<"a", "b", "c", "d", "e", "f", "g", "h", "i", "j", "k", "l", "m",
      "n", "o", "p", "q", "r", "s", "t", "u", "v", "w", "x", "y", "z">>

UpperLetters ==
    <<"A", "B", "C", "D", "E", "F", "G", "H", "I", "J", "K", "L", "M",
      "N", "O", "P", "Q", "R", "S", "T", "U", "V", "W", "X", "Y", "Z">>

IndexIn(letters, c) == CHOOSE i \in 1..Len(letters) : letters[i] = c

IsIn(letters, c) == \E i \in 1..Len(letters) : letters[i] = c

\* str.lower() on one character: A-Z map to a-z; U+017F is already lower
\* case and every other character of the model is caseless.
LowerChar(c) ==
    IF IsIn(UpperLetters, c) THEN LowerLetters[IndexIn(UpperLetters, c)] ELSE c

\* str.upper() on one character: a-z map to A-Z and U+017F maps to "S".
UpperChar(c) ==
    IF IsIn(LowerLetters, c) THEN UpperLetters[IndexIn(LowerLetters, c)]
    ELSE IF c = LongS THEN "S"
    ELSE c

Lower(s) == [i \in 1..Len(s) |-> LowerChar(s[i])]

Upper(s) == [i \in 1..Len(s) |-> UpperChar(s[i])]

\* Python's `word in query` for strings.
Contains(word, query) ==
    \E i \in 0..(Len(query) - Len(word)) :
        SubSeq(query, i + 1, i + Len(word)) = word

\* any(word in query for word in words)
AnyWordIn(words, query) ==
    \E i \in 1..Len(words) : Contains(words[i], query)

\* ---------------------------------------------------------------- keywords
DocKeywords ==
    << <<"h", "o", "w">>,
       <<"w", "h", "a", "t">>,
       <<"w", "h", "y">>,
       <<"e", "x", "p", "l", "a", "i", "n">>,
       <<"c", "o", "n", "c", "e", "p", "t">>,
       <<"b", "e", "s", "t", " ", "p", "r", "a", "c", "t", "i", "c", "e">>,
       <<"d", "o", "c", "u", "m", "e", "n", "t", "a", "t", "i", "o", "n">>,
       <<"t", "u", "t", "o", "r", "i", "a", "l">>,
       <<"g", "u", "i", "d", "e">>,
       <<"l", "e", "a", "r", "n">> >>

CodeKeywords ==
    << <<"c", "o", "d", "e">>,
       <<"e", "x", "a", "m", "p", "l", "e">>,
       <<"s", "n", "i", "p", "p", "e", "t">>,
       <<"i", "m", "p", "l", "e", "m", "e", "n", "t">>,
       <<"s", "h", "o", "w", " ", "m", "e">>,
       <<"s", "a", "m", "p", "l", "e">>,
       <<"f", "u", "n", "c", "t", "i", "o", "n">>,
       <<"c", "l", "a", "s", "s">>,
       <<"s", "c", "r", "i", "p", "t">>,
       <<"d", "a", "t", "a", "b", "a", "s", "e">>,
       <<"o", "r", "a", "c", "l", "e">>,
       <<"c", "o", "n", "n", "e", "c", "t">>,
       <<"s", "q", "l">>,
       <<"q", "u", "e", "r", "y">>,
       <<"t", "a", "b", "l", "e">>,
       <<"i", "n", "s", "e", "r", "t">>,
       <<"s", "e", "l", "e", "c", "t">>,
       <<"p", "y", "t", "h", "o", "n">>,
       <<"j", "a", "v", "a">>,
       <<"f", "a", "s", "t", "a", "p", "i">>,
       <<"l", "a", "n", "g", "c", "h", "a", "i", "n">> >>

\* ----------------------------------------------------------------- queries
\* "show me code for a binary search"
ShowMeCodeQuery ==
    <<"s", "h", "o", "w", " ", "m", "e", " ", "c", "o", "d", "e", " ",
      "f", "o", "r", " ", "a", " ", "b", "i", "n", "a", "r", "y", " ",
      "s", "e", "a", "r", "c", "h">>

\* "How do I connect to Oracle database in Python?"
OracleQuery ==
    <<"H", "o", "w", " ", "d", "o", " ", "I", " ", "c", "o", "n", "n", "e",
      "c", "t", " ", "t", "o", " ", "O", "r", "a", "c", "l", "e", " ",
      "d", "a", "t", "a", "b", "a", "s", "e", " ", "i", "n", " ",
      "P", "y", "t", "h", "o", "n", "?">>

ScenarioQueries == {ShowMeCodeQuery, OracleQuery}

\* Pieces the other queries are concatenated from: keywords of each set,
\* mixed case, a keyword split over two pieces, blank and U+017F.
Fragments ==
    { <<"h", "o", "w">>,
      <<"w", "h", "y">>,
      <<"c", "o", "d", "e">>,
      <<"S", "Q", "L">>,
      <<"S", "h", "o", "w", " ", "m", "e">>,
      <<"q", "l">>,
      <<LongS>>,
      <<" ">> }

RECURSIVE Compose(_)
Compose(n) ==
    IF n = 0 THEN { <<>> }
    ELSE LET shorter == Compose(n - 1)
         IN  shorter \cup { p \o f : p \in shorter, f \in Fragments }

\* The queries the classifier is applied to.
Queries == ScenarioQueries \cup Compose(MaxFragments)

\* The queries whole runs are followed for: the two scenarios, the empty
\* query, one query of each single set, a blank one and one with U+017F.
RunQueries ==
    ScenarioQueries \cup
        { <<>>, <<" ">>, <<"w", "h", "y">>, <<"c", "o", "d", "e">>,
          <<LongS, "q", "l">> }

\* ------------------------------------------------------------ the classifier
\* analyze_query matching the keywords against the raw query, not the
\* lower-cased one.
analyze_query_case_sensitive(raw) ==
    LET docs_hit   == AnyWordIn(DocKeywords, raw)
        code_hit   == AnyWordIn(CodeKeywords, raw)
        unclear    == ~docs_hit /\ ~code_hit
        needs_docs == docs_hit \/ unclear
        needs_code == code_hit \/ unclear
    IN  (IF needs_docs THEN <<"doc_search">> ELSE <<>>)
        \o (IF needs_code THEN <<"code_query">> ELSE <<>>)

\* analyze_query without the default "if unclear, call both".
analyze_query_no_default(raw) ==
    LET query      == Lower(raw)
        needs_docs == AnyWordIn(DocKeywords, query)
        needs_code == AnyWordIn(CodeKeywords, query)
    IN  (IF needs_docs THEN <<"doc_search">> ELSE <<>>)
        \o (IF needs_code THEN <<"code_query">> ELSE <<>>)

\* analyze_query: the list agents_to_call it returns for the raw query.
analyze_query(raw) ==
    LET query      == Lower(raw)
        docs_hit   == AnyWordIn(DocKeywords, query)
        code_hit   == AnyWordIn(CodeKeywords, query)
        unclear    == ~docs_hit /\ ~code_hit
        needs_docs == docs_hit \/ unclear
        needs_code == code_hit \/ unclear
    IN  (IF needs_docs THEN <<"doc_search">> ELSE <<>>)
        \o (IF needs_code THEN <<"code_query">> ELSE <<>>)

\* route_to_agents that never takes the parallel node.
route_to_agents_sequential(agents) ==
    IF agents = <<>> THEN "combine" ELSE agents[1]

\* route_to_agents sending every non-empty decision to the parallel node.
route_to_agents_always_parallel(agents) ==
    IF agents = <<>> THEN "combine" ELSE "parallel"

\* route_to_agents: the node that follows analyze.
route_to_agents(agents) ==
    IF agents = <<>> THEN "combine"
    ELSE IF Len(agents) = 2 THEN "parallel"
    ELSE agents[1]

\* ------------------------------------------------------------------- state
Agents == {"doc_search", "code_query"}

\* Texts a backend agent, and the synthesis call, may return; messages of the
\* exceptions they may raise.
DocTexts == {"", "doc text"}
CodeTexts == {"", "code text"}
SynthTexts == {"", "answer"}
BackendErrors == {"network error"}
SynthErrors == {"llm error"}

\* What a failing tracing call raises (the exporter is unreachable).
TraceErrors == {"exporter unreachable"}

AgentTexts(a) == IF a = "doc_search" THEN DocTexts ELSE CodeTexts

\* The key of OrchestratorState an agent's text is stored under.
ResultKey(a) == IF a = "doc_search" THEN "doc_results" ELSE "code_results"

VARIABLES
    pc,                 \* position of the driving thread
    caller,             \* "process_query" or "direct"
    query,              \* the query of the run
    status_callback,    \* TRUE iff ask_assistant was given a callback
    cached_orchestrator,\* _cached_orchestrator is not None
    graphs_created,     \* calls of create_orchestrator_agent so far
    state,              \* the OrchestratorState of the run
    node,               \* the graph node running, or whose event is pending
    next_node,          \* the node the graph runs after this one
    event,              \* the (node_name, node_output) the stream yielded last
    events,             \* node names of the events consumed by ask_assistant
    final_state,        \* ask_assistant's accumulated final_state
    timing,             \* ask_assistant's timing dict, in half clock units
    start_time,
    node_start_time,
    now,                \* time.time()
    backend,            \* per agent: state of its invocation in this run
    future,             \* per agent: what its invocation returned or raised
    finished,           \* the agents of the fan-out, in order of completion
    submitted,          \* per agent: calls of executor.submit for it
    collected,          \* agents whose future the as_completed loop handled
    par_results,        \* locals doc_results, code_results of the parallel node
    span_errors,        \* "<agent>.error" span attributes set so far
    status_calls,       \* invocations of status_callback, in order
    agent_activity,     \* st.session_state.agent_activity
    session_messages,   \* st.session_state.messages
    synth_calls,        \* calls of llm.invoke in combine_results
    synthesis_prompt,   \* the prompt of the last synthesis call
    result,             \* what ask_assistant returned
    exception,          \* what ask_assistant raised
    runs,               \* concurrent runs: per run, its position and locals
    shared_graph,       \* concurrent runs: _cached_orchestrator (0 is None)
    graph_count,        \* concurrent runs: graphs built so far
    clock,              \* concurrent runs: time.time()
    pool,               \* oracle tool: the cached result of _get_connection_pool
    oq_pc,              \* oracle tool: position inside execute_query
    held,               \* oracle tool: connections acquired or opened, not yet released or closed
    unreferenced,       \* oracle tool: held connections no variable refers to any more
    oq_result,          \* oracle tool: what the last execute_query returned
    oq_calls            \* oracle tool: calls of execute_query so far

\* The variables of one run of ask_assistant alone.
driver ==
    << pc, caller, query, status_callback, cached_orchestrator, graphs_created,
       state, node, next_node, event, events, final_state, timing, start_time,
       node_start_time, now, backend, future, finished, collected, par_results,
       span_errors, status_calls, agent_activity, session_messages,
       synth_calls, synthesis_prompt, result, exception, submitted >>

\* The variables of several runs sharing the cached graph.
concurrent == << runs, shared_graph, graph_count, clock >>

\* The variables of OracleDirectTool.
oracle == << pool, oq_pc, held, unreferenced, oq_result, oq_calls >>

vars == << driver, concurrent, oracle >>

None == "None"

\* The fallback of final_state.get("final_response", ...).
NoAnswer == "Sorry, I couldn't find an answer."

ZeroTiming ==
    [orchestrator_analyze |-> 0, doc_search |-> 0, code_query |-> 0,
     combine |-> 0, total |-> 0]

\* A duration in seconds as a timing entry: entries are kept in half clock
\* units, so that node_duration / 2 is exact.
Seconds(d) == 2 * d

\* node_duration / 2 as a timing entry.
HalfOf(d) == d

EmptyDict == [k \in {} |-> ""]

\* dict.update, and the per-key overwrite of the graph state.
Update(d, output) ==
    [k \in DOMAIN d \cup DOMAIN output |->
        IF k \in DOMAIN output THEN output[k] ELSE d[k]]

\* The graph applies a node's output to the state: operator.add on
\* messages, overwrite on every other key.
ApplyOutput(st, output) ==
    [k \in DOMAIN st |->
        IF k \notin DOMAIN output THEN st[k]
        ELSE IF k = "messages" THEN st[k] \o output[k]
        ELSE output[k]]

Range(seq) == {seq[i] : i \in 1..Len(seq)}

\* The concurrent callers of ask_assistant (one script thread per session).
Runs == {"r1", "r2"}

\* The locals of a call of ask_assistant that has not started.
IdleRun ==
    [pc |-> "idle",
     query |-> <<>>,
     orchestrator |-> 0,
     state |-> EmptyDict,
     node |-> None,
     next_node |-> None,
     event |-> [node_name |-> None, node_output |-> EmptyDict],
     final_state |-> [none |-> TRUE, dict |-> EmptyDict],
     backend |-> [a \in Agents |-> "idle"],
     future |-> [a \in Agents |-> None],
     collected |-> {},
     par_results |-> [doc_results |-> "", code_results |-> ""],
     start_time |-> 0,
     end_time |-> 0,
     timing |-> ZeroTiming,
     result |-> [response |-> None, timing |-> ZeroTiming],
     exception |-> None]

Init ==
    /\ runs = [r \in Runs |-> IdleRun]
    /\ shared_graph = 0
    /\ graph_count = 0
    /\ clock = 0
    /\ pool = "uncreated"
    /\ oq_pc = "idle"
    /\ held = 0
    /\ unreferenced = 0
    /\ oq_result = None
    /\ oq_calls = 0
    /\ pc = "idle"
    /\ caller = None
    /\ query = <<>>
    /\ status_callback = FALSE
    /\ cached_orchestrator = FALSE
    /\ graphs_created = 0
    /\ state = EmptyDict
    /\ node = None
    /\ next_node = None
    /\ event = [node_name |-> None, node_output |-> EmptyDict]
    /\ events = <<>>
    /\ final_state = [none |-> TRUE, dict |-> EmptyDict]
    /\ timing = ZeroTiming
    /\ start_time = 0
    /\ node_start_time = 0
    /\ now = 0
    /\ backend = [a \in Agents |-> "idle"]
    /\ future = [a \in Agents |-> None]
    /\ finished = <<>>
    /\ submitted = [a \in Agents |-> 0]
    /\ collected = {}
    /\ par_results = [doc_results |-> "", code_results |-> ""]
    /\ span_errors = {}
    /\ status_calls = <<>>
    /\ agent_activity = <<>>
    /\ session_messages = <<>>
    /\ synth_calls = 0
    /\ synthesis_prompt = [question |-> <<>>, documentation |-> None, code_examples |-> None]
    /\ result = [response |-> None, timing |-> ZeroTiming]
    /\ exception = None

\* ------------------------------------------------------- the status observer
\* One invocation status_callback(agent, status, details), made on `thread`.
StatusCall(agent, status, details, thread) ==
    [agent |-> agent, status |-> status, details |-> details, thread |-> thread]

\* The calls ask_assistant makes before the stream starts.
StartCalls ==
    << StatusCall("Orchestrator", "analyzing", <<"Analyzing query...">>, "driver") >>

\* The calls the loop body of ask_assistant makes for one stream event.
EventCalls(node_name, node_output) ==
    IF node_name = "analyze" THEN
        LET agents == IF "agents_to_call" \in DOMAIN node_output
                      THEN node_output.agents_to_call ELSE <<>>
        IN  << StatusCall("Orchestrator", "routing",
                          <<"Will query: ">> \o
                              (IF agents # <<>> THEN agents
                               ELSE <<"combining results">>),
                          "driver") >>
    ELSE IF node_name = "parallel" THEN
        << StatusCall("Doc Search Agent", "running", <<"Searching documentation...">>, "driver"),
           StatusCall("Code Query Agent", "running", <<"Querying code snippets...">>, "driver"),
           StatusCall("Doc Search Agent", "complete", <<"Documentation retrieved">>, "driver"),
           StatusCall("Code Query Agent", "complete", <<"Code snippets retrieved">>, "driver") >>
    ELSE IF node_name = "doc_search" THEN
        << StatusCall("Doc Search Agent", "running", <<"Searching documentation...">>, "driver"),
           StatusCall("Doc Search Agent", "complete", <<"Documentation retrieved">>, "driver") >>
    ELSE IF node_name = "code_query" THEN
        << StatusCall("Code Query Agent", "running", <<"Querying code snippets...">>, "driver"),
           StatusCall("Code Query Agent", "complete", <<"Code snippets retrieved">>, "driver") >>
    ELSE IF node_name = "combine" THEN
        << StatusCall("Orchestrator", "combining", <<"Synthesizing response...">>, "driver") >>
    ELSE << >>

\* The last status call with the label "done".
FinishCallsDone(total) ==
    << [agent |-> "Orchestrator", status |-> "done",
        details |-> <<"Response generated in ", ToString(total)>>,
        thread |-> "driver"] >>

\* The call ask_assistant makes once the stream is exhausted.
FinishCalls(total) ==
    << StatusCall("Orchestrator", "complete",
                  <<"Response generated in ", ToString(total)>>, "driver") >>

\* A fan-out worker reporting its own completion to the observer.
WorkerCallsComplete(a) ==
    << [agent |-> IF a = "doc_search" THEN "Doc Search Agent"
                  ELSE "Code Query Agent",
        status |-> "complete", details |-> <<"retrieved">>,
        thread |-> "worker"] >>

\* The calls a fan-out worker makes: run_with_context only runs the agent.
WorkerCalls(a) == << >>

\* Deliver calls to the observer: process_query's callback appends each to
\* st.session_state.agent_activity.
Deliver(calls) ==
    /\ status_calls' =
           IF status_callback THEN status_calls \o calls ELSE status_calls
    /\ agent_activity' =
           IF status_callback /\ caller = "process_query"
           THEN agent_activity \o
                    [i \in 1..Len(calls) |->
                        [agent |-> calls[i].agent, status |-> calls[i].status,
                         details |-> calls[i].details]]
           ELSE agent_activity

\* ------------------------------------------------------------------ callers
\* process_query, up to its call of ask_assistant.
ProcessQuery(q) ==
    /\ pc = "idle"
    /\ pc' = "call"
    /\ caller' = "process_query"
    /\ query' = q
    /\ status_callback' = TRUE
    /\ session_messages' =
           Append(session_messages, [role |-> "user", content |-> <<q>>])
    /\ agent_activity' = <<>>
    /\ UNCHANGED << oracle, concurrent, submitted, cached_orchestrator, graphs_created, state, node, next_node,
                    event, events, final_state, timing, start_time,
                    node_start_time, now, backend, future, finished, collected,
                    par_results, span_errors, status_calls, synth_calls,
                    synthesis_prompt, result, exception >>

\* Any other caller of ask_assistant, with or without a callback.
DirectCall(q, cb) ==
    /\ pc = "idle"
    /\ pc' = "call"
    /\ caller' = "direct"
    /\ query' = q
    /\ status_callback' = cb
    /\ UNCHANGED << oracle, concurrent, submitted, cached_orchestrator, graphs_created, state, node, next_node,
                    event, events, final_state, timing, start_time,
                    node_start_time, now, backend, future, finished, collected,
                    par_results, span_errors, status_calls, agent_activity,
                    session_messages, synth_calls, synthesis_prompt, result,
                    exception >>

\* ------------------------------------------------------------ ask_assistant
\* ask_assistant up to the initial state: timing, start_time, the first
\* status call, get_orchestrator_agent, initial_state.
AskAssistant ==
    /\ pc = "call"
    /\ pc' = "stream"
    /\ timing' = ZeroTiming
    /\ start_time' = now
    /\ Deliver(StartCalls)
    /\ cached_orchestrator' = TRUE
    /\ graphs_created' =
           IF cached_orchestrator THEN graphs_created ELSE graphs_created + 1
    /\ state' = [messages |-> << [type |-> "human", content |-> <<query>>] >>,
                 query |-> query,
                 doc_results |-> "",
                 code_results |-> "",
                 final_response |-> "",
                 agents_to_call |-> <<>>]
    /\ UNCHANGED << oracle, concurrent, submitted, caller, query, status_callback, node, next_node, event,
                    events, final_state, node_start_time, now, backend, future,
                    finished, collected, par_results, span_errors, session_messages,
                    synth_calls, synthesis_prompt, result, exception >>

\* node_start_time, final_state = None, and the stream starts at the entry
\* point of the graph.
StreamBegin ==
    /\ pc = "stream"
    /\ pc' = "node"
    /\ node_start_time' = now
    /\ final_state' = [none |-> TRUE, dict |-> EmptyDict]
    /\ node' = "analyze"
    /\ UNCHANGED << oracle, concurrent, submitted, caller, query, status_callback, cached_orchestrator,
                    graphs_created, state, next_node, event, events, timing,
                    start_time, now, backend, future, finished, collected, par_results,
                    span_errors, status_calls, agent_activity,
                    session_messages, synth_calls, synthesis_prompt, result,
                    exception >>

\* A node finished with `output`: the graph applies it to the state, picks
\* the next node and yields the event.
Yield(output, following) ==
    /\ pc' = "event"
    /\ state' = ApplyOutput(state, output)
    /\ event' = [node_name |-> node, node_output |-> output]
    /\ next_node' = following

\* The node analyze; the conditional edge out of it is route_to_agents.
NodeAnalyze ==
    /\ pc = "node"
    /\ node = "analyze"
    /\ LET output == [agents_to_call |-> analyze_query(state.query)]
       IN  Yield(output, route_to_agents(output.agents_to_call))
    /\ UNCHANGED << oracle, concurrent, submitted, caller, query, status_callback, cached_orchestrator,
                    graphs_created, node, events, final_state, timing,
                    start_time, node_start_time, now, backend, future,
                    finished, collected, par_results, span_errors, status_calls,
                    agent_activity, session_messages, synth_calls,
                    synthesis_prompt, result, exception >>

\* ThreadPoolExecutor(max_workers=2): the size of the pool of call_agents_parallel.
MaxWorkers == 2

\* The lists agents_to_call can hold: the agents without repetition, in
\* either order, the empty list included.
Decisions ==
    {<<>>} \cup {<<a>> : a \in Agents}
           \cup {d \in Agents \X Agents : d[1] # d[2]}

\* The node analyze with its output drawn from Decisions, so that the
\* conditional edge route_to_agents is exercised on every list, including
\* the empty one that analyze_query itself never returns.
AnalyzeYields(d) ==
    /\ pc = "node"
    /\ node = "analyze"
    /\ Yield([agents_to_call |-> d], route_to_agents(d))
    /\ UNCHANGED << oracle, concurrent, submitted, caller, query, status_callback, cached_orchestrator,
                    graphs_created, node, events, final_state, timing,
                    start_time, node_start_time, now, backend, future,
                    finished, collected, par_results, span_errors, status_calls,
                    agent_activity, session_messages, synth_calls,
                    synthesis_prompt, result, exception >>

\* The unconditional edges of the graph: every agent node goes to combine,
\* combine ends the workflow.
Edge(n) == IF n = "combine" THEN "END" ELSE "combine"

\* ------------------------------------------------------- call_agents_parallel
\* The agents call_agents_parallel submits to the executor.
Dispatched(agents) == {a \in Agents : a \in Range(agents)}

\* The as_completed loop left after the first future.
AllHandledFirst(dispatched, handled) == handled # {}

\* The as_completed loop left at the first future that raised.
AllHandledFailFast(dispatched, handled) ==
    handled = dispatched \/ \E a \in handled : backend[a] = "raised"

\* The as_completed loop is over, and the executor has shut down.
\* The as_completed loop with a timeout: it gives up on the futures whose
\* call never returns.
AllHandledTimeout(dispatched, handled) ==
    handled = {a \in dispatched : backend[a] # "hung"}

AllHandled(dispatched, handled) == handled = dispatched

\* call_agents_parallel up to the submissions: both locals start empty.
ParallelSubmit ==
    /\ pc = "node"
    /\ node = "parallel"
    /\ pc' = "join"
    /\ par_results' = [doc_results |-> "", code_results |-> ""]
    /\ finished' = <<>>
    /\ collected' = {}
    /\ backend' = [a \in Agents |->
                      IF a \in Dispatched(state.agents_to_call)
                      THEN "running" ELSE backend[a]]
    /\ submitted' = [a \in Agents |->
                        IF a \in Dispatched(state.agents_to_call)
                        THEN submitted[a] + 1 ELSE submitted[a]]
    /\ UNCHANGED << oracle, concurrent, caller, query, status_callback, cached_orchestrator,
                    graphs_created, state, node, next_node, event, events,
                    final_state, timing, start_time, node_start_time, now,
                    future, span_errors, status_calls, agent_activity,
                    session_messages, synth_calls, synthesis_prompt, result,
                    exception >>

\* A worker's agent returns `text`.
WorkerReturn(a, text) ==
    /\ pc = "join"
    /\ backend[a] = "running"
    /\ backend' = [backend EXCEPT ![a] = "returned"]
    /\ future' = [future EXCEPT ![a] = text]
    /\ finished' = Append(finished, a)
    /\ Deliver(WorkerCalls(a))
    /\ UNCHANGED << oracle, concurrent, submitted, pc, caller, query, status_callback, cached_orchestrator,
                    graphs_created, state, node, next_node, event, events,
                    final_state, timing, start_time, node_start_time, now,
                    collected, par_results, span_errors, session_messages,
                    synth_calls, synthesis_prompt, result, exception >>

\* A worker's agent raises an exception with message `e`.
WorkerRaise(a, e) ==
    /\ pc = "join"
    /\ backend[a] = "running"
    /\ backend' = [backend EXCEPT ![a] = "raised"]
    /\ future' = [future EXCEPT ![a] = e]
    /\ finished' = Append(finished, a)
    /\ Deliver(WorkerCalls(a))
    /\ UNCHANGED << oracle, concurrent, submitted, pc, caller, query, status_callback, cached_orchestrator,
                    graphs_created, state, node, next_node, event, events,
                    final_state, timing, start_time, node_start_time, now,
                    collected, par_results, span_errors, session_messages,
                    synth_calls, synthesis_prompt, result, exception >>

\* The loop body with an except branch that resets both locals.
AfterCompletedDiscard(results, a, outcome, value) ==
    IF outcome = "returned"
    THEN [results EXCEPT ![ResultKey(a)] = value]
    ELSE [doc_results |-> "", code_results |-> ""]

\* The loop body with an except branch that keeps str(e) as the result.
AfterCompletedErrorText(results, a, outcome, value) ==
    [results EXCEPT ![ResultKey(a)] = value]

\* The loop body keeping only the result of the first future to return.
AfterCompletedFirstWins(results, a, outcome, value) ==
    IF outcome = "returned" /\ results.doc_results = "" /\ results.code_results = ""
    THEN [results EXCEPT ![ResultKey(a)] = value]
    ELSE results

\* The body of the as_completed loop on the locals doc_results and
\* code_results, for the future of agent a: a result goes to the agent's
\* local, an exception leaves both locals as they are.
AfterCompleted(results, a, outcome, value) ==
    IF outcome = "returned"
    THEN [results EXCEPT ![ResultKey(a)] = value]
    ELSE results

\* One iteration of the as_completed loop, for a finished future; its
\* exception goes to a span attribute.
Collect(a) ==
    /\ pc = "join"
    /\ a \in Dispatched(state.agents_to_call) \ collected
    /\ backend[a] \in {"returned", "raised"}
    /\ collected' = collected \cup {a}
    /\ par_results' = AfterCompleted(par_results, a, backend[a], future[a])
    /\ span_errors' =
           IF backend[a] = "raised"
           THEN span_errors \cup {<<a, future[a]>>} ELSE span_errors
    /\ UNCHANGED finished
    /\ UNCHANGED << oracle, concurrent, submitted, pc, caller, query, status_callback, cached_orchestrator,
                    graphs_created, state, node, next_node, event, events,
                    final_state, timing, start_time, node_start_time, now,
                    backend, future, status_calls, agent_activity,
                    session_messages, synth_calls, synthesis_prompt, result,
                    exception >>

\* call_agents_parallel returns both locals.
ParallelReturn ==
    /\ pc = "join"
    /\ AllHandled(Dispatched(state.agents_to_call), collected)
    /\ Yield(par_results, Edge(node))
    /\ UNCHANGED << oracle, concurrent, submitted, caller, query, status_callback, cached_orchestrator,
                    graphs_created, node, events, final_state, timing,
                    start_time, node_start_time, now, backend, future,
                    finished, collected, par_results, span_errors, status_calls,
                    agent_activity, session_messages, synth_calls,
                    synthesis_prompt, result, exception >>

\* -------------------------------------------- call_doc_search, call_code_query
\* The single agent returns `text`.
SingleReturn(text) ==
    /\ pc = "node"
    /\ node \in Agents
    /\ text \in AgentTexts(node)
    /\ backend' = [backend EXCEPT ![node] = "returned"]
    /\ future' = [future EXCEPT ![node] = text]
    /\ Yield([k \in {ResultKey(node)} |-> text], Edge(node))
    /\ UNCHANGED << oracle, concurrent, submitted, caller, query, status_callback, cached_orchestrator,
                    graphs_created, node, events, final_state, timing,
                    start_time, node_start_time, now, finished, collected,
                    par_results, span_errors, status_calls, agent_activity,
                    session_messages, synth_calls, synthesis_prompt, result,
                    exception >>

\* The exception swallowed by the node: the stream ends and ask_assistant
\* returns.
PropagateSwallowed(e) ==
    /\ pc' = "finish"
    /\ exception' = e

\* What a node function does with an exception of the call it makes: the
\* single-agent nodes and combine_results have no try block, the graph and
\* ask_assistant have none either, so the exception leaves ask_assistant.
Propagate(e) ==
    /\ pc' = "raised"
    /\ exception' = e

\* A tracing call raises: tracer.start_as_current_span or span.set_attribute
\* at the head of ask_assistant or of a node.  No try surrounds these calls,
\* so the exception leaves the node, the stream loop and ask_assistant.
TracingRaise(e) ==
    /\ pc \in {"call", "node"}
    /\ Propagate(e)
    /\ UNCHANGED << oracle, concurrent, submitted, caller, query, status_callback, cached_orchestrator,
                    graphs_created, state, node, next_node, event, events,
                    final_state, timing, start_time, node_start_time, now,
                    backend, future, finished, collected, par_results,
                    span_errors, status_calls, agent_activity,
                    session_messages, synth_calls, synthesis_prompt, result >>

\* The single agent raises.
SingleRaise(e) ==
    /\ pc = "node"
    /\ node \in Agents
    /\ backend' = [backend EXCEPT ![node] = "raised"]
    /\ future' = [future EXCEPT ![node] = e]
    /\ Propagate(e)
    /\ UNCHANGED << oracle, concurrent, submitted, caller, query, status_callback, cached_orchestrator,
                    graphs_created, state, node, next_node, event, events,
                    final_state, timing, start_time, node_start_time, now,
                    finished, collected, par_results, span_errors,
                    status_calls, agent_activity, session_messages,
                    synth_calls, synthesis_prompt, result >>

\* ------------------------------------------------------------ combine_results
\* The synthesis prompt: the question and each result, or its placeholder.
SynthesisPrompt(st) ==
    [question |-> st.query,
     documentation |->
         IF st.doc_results # "" THEN st.doc_results
         ELSE "No documentation found.",
     code_examples |->
         IF st.code_results # "" THEN st.code_results
         ELSE "No code examples found."]

\* llm.invoke returns `text`.
CombineReturn(text) ==
    /\ pc = "node"
    /\ node = "combine"
    /\ synthesis_prompt' = SynthesisPrompt(state)
    /\ synth_calls' = synth_calls + 1
    /\ Yield([final_response |-> text,
              messages |-> << [type |-> "ai", content |-> <<text>>] >>],
             Edge(node))
    /\ UNCHANGED << oracle, concurrent, submitted, caller, query, status_callback, cached_orchestrator,
                    graphs_created, node, events, final_state, timing,
                    start_time, node_start_time, now, backend, future,
                    finished, collected, par_results, span_errors, status_calls,
                    agent_activity, session_messages, result, exception >>

\* llm.invoke raises.
CombineRaise(e) ==
    /\ pc = "node"
    /\ node = "combine"
    /\ synthesis_prompt' = SynthesisPrompt(state)
    /\ synth_calls' = synth_calls + 1
    /\ Propagate(e)
    /\ UNCHANGED << oracle, concurrent, submitted, caller, query, status_callback, cached_orchestrator,
                    graphs_created, state, node, next_node, event, events,
                    final_state, timing, start_time, node_start_time, now,
                    backend, future, finished, collected, par_results, span_errors,
                    status_calls, agent_activity, session_messages, result >>

\* ------------------------------------------------ the loop body of ask_assistant
\* The timing dict with the whole fan-out duration given to each agent.
TimingAfterUnsplit(t, node_name, node_duration) ==
    IF node_name = "analyze"
    THEN [t EXCEPT !.orchestrator_analyze = Seconds(node_duration)]
    ELSE IF node_name = "parallel"
    THEN [t EXCEPT !.doc_search = Seconds(node_duration),
                   !.code_query = Seconds(node_duration)]
    ELSE IF node_name = "doc_search"
    THEN [t EXCEPT !.doc_search = Seconds(node_duration)]
    ELSE IF node_name = "code_query"
    THEN [t EXCEPT !.code_query = Seconds(node_duration)]
    ELSE IF node_name = "combine"
    THEN [t EXCEPT !.combine = Seconds(node_duration)]
    ELSE t

\* The timing dict after the event of node_name, which took node_duration.
TimingAfter(t, node_name, node_duration) ==
    IF node_name = "analyze"
    THEN [t EXCEPT !.orchestrator_analyze = Seconds(node_duration)]
    ELSE IF node_name = "parallel"
    THEN [t EXCEPT !.doc_search = HalfOf(node_duration),
                   !.code_query = HalfOf(node_duration)]
    ELSE IF node_name = "doc_search"
    THEN [t EXCEPT !.doc_search = Seconds(node_duration)]
    ELSE IF node_name = "code_query"
    THEN [t EXCEPT !.code_query = Seconds(node_duration)]
    ELSE IF node_name = "combine"
    THEN [t EXCEPT !.combine = Seconds(node_duration)]
    ELSE t

\* final_state set from the first node_output and never updated.
FinalStateAfterFirst(fs, node_output) ==
    IF fs.none THEN [none |-> FALSE, dict |-> node_output] ELSE fs

\* final_state after one more node_output.
FinalStateAfter(fs, node_output) ==
    IF fs.none THEN [none |-> FALSE, dict |-> node_output]
    ELSE [none |-> FALSE, dict |-> Update(fs.dict, node_output)]

\* The loop body for the event the stream yielded, then the stream resumes
\* with the next node, or ends.
HandleEvent ==
    /\ pc = "event"
    /\ timing' = TimingAfter(timing, event.node_name, now - node_start_time)
    /\ Deliver(EventCalls(event.node_name, event.node_output))
    /\ final_state' = FinalStateAfter(final_state, event.node_output)
    /\ events' = Append(events, event.node_name)
    /\ node_start_time' = now
    /\ node' = next_node
    /\ pc' = IF next_node = "END" THEN "finish" ELSE "node"
    /\ UNCHANGED << oracle, concurrent, submitted, caller, query, status_callback, cached_orchestrator,
                    graphs_created, state, next_node, event, start_time, now,
                    backend, future, finished, collected, par_results, span_errors,
                    session_messages, synth_calls, synthesis_prompt, result,
                    exception >>

\* final_state.get("final_response", ...) if final_state else ...
ResponseOf(fs) ==
    IF ~fs.none /\ DOMAIN fs.dict # {}
    THEN IF "final_response" \in DOMAIN fs.dict
         THEN fs.dict.final_response ELSE NoAnswer
    ELSE NoAnswer

\* ask_assistant after the loop: total, response, the last status call,
\* the returned dict.
Finish ==
    /\ pc = "finish"
    /\ pc' = "returned"
    /\ timing' = [timing EXCEPT !.total = Seconds(now - start_time)]
    /\ Deliver(FinishCalls(timing'.total))
    /\ result' = [response |-> ResponseOf(final_state), timing |-> timing']
    /\ UNCHANGED << oracle, concurrent, submitted, caller, query, status_callback, cached_orchestrator,
                    graphs_created, state, node, next_node, event, events,
                    final_state, start_time, node_start_time, now, backend,
                    future, finished, collected, par_results, span_errors,
                    session_messages, synth_calls, synthesis_prompt,
                    exception >>

\* ------------------------------------------------- process_query, after the call
\* ask_assistant returned: the response becomes the assistant message.
ProcessQueryReturn ==
    /\ pc = "returned"
    /\ caller = "process_query"
    /\ pc' = "shown"
    /\ session_messages' =
           Append(session_messages,
                  [role |-> "assistant", content |-> <<result.response>>])
    /\ UNCHANGED << oracle, concurrent, submitted, caller, query, status_callback, cached_orchestrator,
                    graphs_created, state, node, next_node, event, events,
                    final_state, timing, start_time, node_start_time, now,
                    backend, future, finished, collected, par_results, span_errors,
                    status_calls, agent_activity, synth_calls,
                    synthesis_prompt, result, exception >>

\* ask_assistant raised: the except block records the failure and shows the
\* error as the assistant message.
ProcessQueryExcept ==
    /\ pc = "raised"
    /\ caller = "process_query"
    /\ pc' = "shown"
    /\ agent_activity' =
           Append(agent_activity,
                  [agent |-> "Error", status |-> "failed",
                   details |-> <<exception>>])
    /\ session_messages' =
           Append(session_messages,
                  [role |-> "assistant",
                   content |-> <<"Error processing query: ", exception>>])
    /\ UNCHANGED << oracle, concurrent, submitted, caller, query, status_callback, cached_orchestrator,
                    graphs_created, state, node, next_node, event, events,
                    final_state, timing, start_time, node_start_time, now,
                    backend, future, finished, collected, par_results, span_errors,
                    status_calls, synth_calls, synthesis_prompt, result,
                    exception >>

\* ------------------------------------------------------------------ the clock
\* time.time() advances while a run is in progress.
Tick ==
    /\ pc \in {"call", "stream", "node", "join", "event", "finish"}
    /\ now < MaxTime
    /\ now' = now + 1
    /\ UNCHANGED << oracle, concurrent, submitted, pc, caller, query, status_callback, cached_orchestrator,
                    graphs_created, state, node, next_node, event, events,
                    final_state, timing, start_time, node_start_time, backend,
                    future, finished, collected, par_results, span_errors, status_calls,
                    agent_activity, session_messages, synth_calls,
                    synthesis_prompt, result, exception >>

Next ==
    \/ \E q \in RunQueries : ProcessQuery(q)
    \/ \E q \in RunQueries, cb \in BOOLEAN : DirectCall(q, cb)
    \/ AskAssistant
    \/ StreamBegin
    \/ NodeAnalyze
    \/ ParallelSubmit
    \/ \E a \in Agents, text \in DocTexts \cup CodeTexts :
           text \in AgentTexts(a) /\ WorkerReturn(a, text)
    \/ \E a \in Agents, e \in BackendErrors : WorkerRaise(a, e)
    \/ \E a \in Agents : Collect(a)
    \/ ParallelReturn
    \/ \E text \in DocTexts \cup CodeTexts : SingleReturn(text)
    \/ \E e \in BackendErrors : SingleRaise(e)
    \/ \E text \in SynthTexts : CombineReturn(text)
    \/ \E e \in SynthErrors : CombineRaise(e)
    \/ HandleEvent
    \/ Finish
    \/ ProcessQueryReturn
    \/ ProcessQueryExcept
    \/ Tick

\* Whole runs of ask_assistant, for the queries of RunQueries.
Spec == Init /\ [][Next]_vars

\* The classifier on every query of Queries: runs of ask_assistant followed
\* up to the event of the analyze node and the routing out of it.
NextClassify ==
    \/ \E q \in Queries, cb \in BOOLEAN : DirectCall(q, cb)
    \/ AskAssistant
    \/ StreamBegin
    \/ NodeAnalyze
    \/ HandleEvent

SpecClassify == Init /\ [][NextClassify]_vars

\* ------------------------------------------------------ calls that never return
\* A worker's agent call never returns: its future never completes.
WorkerHang(a) ==
    /\ pc = "join"
    /\ backend[a] = "running"
    /\ backend' = [backend EXCEPT ![a] = "hung"]
    /\ UNCHANGED << oracle, concurrent, submitted, pc, caller, query, status_callback, cached_orchestrator,
                    graphs_created, state, node, next_node, event, events,
                    final_state, timing, start_time, node_start_time, now,
                    future, finished, collected, par_results, span_errors,
                    status_calls, agent_activity, session_messages,
                    synth_calls, synthesis_prompt, result, exception >>

\* The agent call of a single-agent node never returns: the driving thread
\* stays in the node.
SingleHang ==
    /\ pc = "node"
    /\ node \in Agents
    /\ pc' = "hung"
    /\ backend' = [backend EXCEPT ![node] = "hung"]
    /\ UNCHANGED << oracle, concurrent, submitted, caller, query, status_callback, cached_orchestrator,
                    graphs_created, state, node, next_node, event, events,
                    final_state, timing, start_time, node_start_time, now,
                    future, finished, collected, par_results, span_errors,
                    status_calls, agent_activity, session_messages,
                    synth_calls, synthesis_prompt, result, exception >>

\* llm.invoke never returns: the driving thread stays in combine_results.
CombineHang ==
    /\ pc = "node"
    /\ node = "combine"
    /\ pc' = "hung"
    /\ synthesis_prompt' = SynthesisPrompt(state)
    /\ synth_calls' = synth_calls + 1
    /\ UNCHANGED << oracle, concurrent, submitted, caller, query, status_callback, cached_orchestrator,
                    graphs_created, state, node, next_node, event, events,
                    final_state, timing, start_time, node_start_time, now,
                    backend, future, finished, collected, par_results,
                    span_errors, status_calls, agent_activity,
                    session_messages, result, exception >>

\* The queries of the runs followed to their end under fairness.
LiveQueries == {OracleQuery, <<"c", "o", "d", "e">>}

\* The steps of the driving thread.
DriverStep ==
    \/ \E q \in LiveQueries : ProcessQuery(q)
    \/ \E q \in LiveQueries, cb \in BOOLEAN : DirectCall(q, cb)
    \/ AskAssistant
    \/ StreamBegin
    \/ NodeAnalyze
    \/ ParallelSubmit
    \/ \E a \in Agents : Collect(a)
    \/ ParallelReturn
    \/ HandleEvent
    \/ Finish
    \/ ProcessQueryReturn
    \/ ProcessQueryExcept

\* A blocking call comes to its end: it returns or it raises.
CallEnds ==
    \/ \E a \in Agents, text \in DocTexts \cup CodeTexts :
           text \in AgentTexts(a) /\ WorkerReturn(a, text)
    \/ \E a \in Agents, e \in BackendErrors : WorkerRaise(a, e)
    \/ \E text \in DocTexts \cup CodeTexts : SingleReturn(text)
    \/ \E e \in BackendErrors : SingleRaise(e)
    \/ \E text \in SynthTexts : CombineReturn(text)
    \/ \E e \in SynthErrors : CombineRaise(e)

\* A blocking call turns out never to return.
CallHangs ==
    \/ \E a \in Agents : WorkerHang(a)
    \/ SingleHang
    \/ CombineHang

NextLive ==
    \/ DriverStep
    \/ CallEnds
    \/ CallHangs
    \/ Tick

\* Whole runs in which the driving thread keeps running and every blocking
\* call either comes to its end or never returns.
SpecLive ==
    /\ Init
    /\ [][NextLive]_vars
    /\ WF_vars(DriverStep)
    /\ WF_vars(CallEnds \/ CallHangs)

\* The compiled graph on every list the analyze node can put in
\* agents_to_call: runs of ask_assistant on one query, the output of the
\* analyze node drawn from Decisions.
NextGraph ==
    \/ \E cb \in BOOLEAN : DirectCall(OracleQuery, cb)
    \/ AskAssistant
    \/ StreamBegin
    \/ \E d \in Decisions : AnalyzeYields(d)
    \/ ParallelSubmit
    \/ \E a \in Agents, text \in DocTexts \cup CodeTexts :
           text \in AgentTexts(a) /\ WorkerReturn(a, text)
    \/ \E a \in Agents, e \in BackendErrors : WorkerRaise(a, e)
    \/ \E a \in Agents : Collect(a)
    \/ ParallelReturn
    \/ \E text \in DocTexts \cup CodeTexts : SingleReturn(text)
    \/ \E e \in BackendErrors : SingleRaise(e)
    \/ \E text \in SynthTexts : CombineReturn(text)
    \/ \E e \in SynthErrors : CombineRaise(e)
    \/ HandleEvent
    \/ Finish
    \/ Tick

SpecGraph == Init /\ [][NextGraph]_vars

\* Whole runs with a tracer whose calls can fail.
NextTracing ==
    \/ Next
    \/ \E e \in TraceErrors : TracingRaise(e)

SpecTracing == Init /\ [][NextTracing]_vars

\* ------------------------------------------------ concurrent calls of ask_assistant
\* The queries of the concurrent callers: one routed to both agents, one
\* routed to code_query alone.
SessionQueries == {OracleQuery, <<"c", "o", "d", "e">>}

\* The text the agent `a` returns when it is called with the query q.
AgentTextFor(a, q) ==
    IF q = OracleQuery
    THEN (IF a = "doc_search" THEN "doc text (oracle)" ELSE "code text (oracle)")
    ELSE (IF a = "doc_search" THEN "doc text" ELSE "code text")

\* The text llm.invoke returns for a synthesis prompt.
AnswerFor(prompt) ==
    IF prompt.question = OracleQuery THEN "answer (oracle)" ELSE "answer"

\* doc_results and code_results kept in one place for every call of
\* call_agents_parallel, and not as locals of each call.
par_results_shared(r) == runs[CHOOSE first \in Runs : TRUE].par_results

\* doc_results and code_results, locals of the call of call_agents_parallel
\* made by the run r.
par_results_of(r) == runs[r].par_results

\* The locals of the run r change to `locals`; nothing else changes.
Assign(r, locals) ==
    /\ runs' = [runs EXCEPT ![r] = locals]
    /\ UNCHANGED << oracle, driver, shared_graph, graph_count, clock >>

\* ask_assistant(query) is called: timing, start_time, then the call of
\* get_orchestrator_agent begins.
RunCall(r, q) ==
    /\ runs[r].pc = "idle"
    /\ Assign(r, [runs[r] EXCEPT !.pc = "get",
                                 !.query = q,
                                 !.timing = ZeroTiming,
                                 !.start_time = clock])

\* get_orchestrator_agent: the test `_cached_orchestrator is None`.
GetTest(r) ==
    /\ runs[r].pc = "get"
    /\ Assign(r, [runs[r] EXCEPT
                     !.pc = IF shared_graph = 0 THEN "create" ELSE "cached"])

\* get_orchestrator_agent: create_orchestrator_agent() returns a new graph,
\* which is stored in _cached_orchestrator.
GetCreate(r) ==
    /\ runs[r].pc = "create"
    /\ graph_count' = graph_count + 1
    /\ shared_graph' = graph_count + 1
    /\ runs' = [runs EXCEPT ![r].pc = "cached"]
    /\ UNCHANGED << oracle, driver, clock >>

\* get_orchestrator_agent returns _cached_orchestrator as it is now;
\* ask_assistant builds initial_state and the stream starts at analyze.
GetReturn(r) ==
    /\ runs[r].pc = "cached"
    /\ Assign(r, [runs[r] EXCEPT
                     !.pc = "node",
                     !.orchestrator = shared_graph,
                     !.state = [messages |-> << [type |-> "human",
                                                 content |-> <<runs[r].query>>] >>,
                                query |-> runs[r].query,
                                doc_results |-> "",
                                code_results |-> "",
                                final_response |-> "",
                                agents_to_call |-> <<>>],
                     !.final_state = [none |-> TRUE, dict |-> EmptyDict],
                     !.node = "analyze"])

\* The locals of r after its running node finished with `output`.
RunYield(r, output, following) ==
    [runs[r] EXCEPT !.pc = "event",
                    !.state = ApplyOutput(runs[r].state, output),
                    !.event = [node_name |-> runs[r].node,
                               node_output |-> output],
                    !.next_node = following]

\* The node analyze of the run r.
RunAnalyze(r) ==
    /\ runs[r].pc = "node"
    /\ runs[r].node = "analyze"
    /\ LET output == [agents_to_call |-> analyze_query(runs[r].state.query)]
       IN  Assign(r, RunYield(r, output,
                              route_to_agents(output.agents_to_call)))

\* call_agents_parallel of the run r, up to the submissions.
RunParallelSubmit(r) ==
    /\ runs[r].pc = "node"
    /\ runs[r].node = "parallel"
    /\ Assign(r, [runs[r] EXCEPT
                     !.pc = "join",
                     !.par_results = [doc_results |-> "", code_results |-> ""],
                     !.collected = {},
                     !.backend =
                         [a \in Agents |->
                             IF a \in Dispatched(runs[r].state.agents_to_call)
                             THEN "running" ELSE runs[r].backend[a]]])

\* A worker of the run r: its agent returns the text for the run's query.
RunWorkerReturn(r, a) ==
    /\ runs[r].pc = "join"
    /\ runs[r].backend[a] = "running"
    /\ Assign(r, [runs[r] EXCEPT
                     !.backend[a] = "returned",
                     !.future[a] = AgentTextFor(a, runs[r].state.query)])

\* A worker of the run r: its agent raises.
RunWorkerRaise(r, a, e) ==
    /\ runs[r].pc = "join"
    /\ runs[r].backend[a] = "running"
    /\ Assign(r, [runs[r] EXCEPT !.backend[a] = "raised", !.future[a] = e])

\* One iteration of the as_completed loop of the run r.
RunCollect(r, a) ==
    /\ runs[r].pc = "join"
    /\ a \in Dispatched(runs[r].state.agents_to_call) \ runs[r].collected
    /\ runs[r].backend[a] \in {"returned", "raised"}
    /\ Assign(r, [runs[r] EXCEPT
                     !.collected = runs[r].collected \cup {a},
                     !.par_results =
                         AfterCompleted(par_results_of(r), a,
                                        runs[r].backend[a], runs[r].future[a])])

\* call_agents_parallel of the run r returns both locals.
RunParallelReturn(r) ==
    /\ runs[r].pc = "join"
    /\ AllHandled(Dispatched(runs[r].state.agents_to_call), runs[r].collected)
    /\ Assign(r, RunYield(r, par_results_of(r), Edge(runs[r].node)))

\* The single-agent node of the run r returns.
RunSingleReturn(r) ==
    /\ runs[r].pc = "node"
    /\ runs[r].node \in Agents
    /\ LET a == runs[r].node
           text == AgentTextFor(a, runs[r].state.query)
       IN  Assign(r, [RunYield(r, [k \in {ResultKey(a)} |-> text], Edge(a))
                         EXCEPT !.backend[a] = "returned",
                                !.future[a] = text])

\* The single-agent node of the run r raises: the run ends.
RunSingleRaise(r, e) ==
    /\ runs[r].pc = "node"
    /\ runs[r].node \in Agents
    /\ Assign(r, [runs[r] EXCEPT !.pc = "raised", !.exception = e])

\* combine_results of the run r: llm.invoke returns.
RunCombineReturn(r) ==
    /\ runs[r].pc = "node"
    /\ runs[r].node = "combine"
    /\ LET text == AnswerFor(SynthesisPrompt(runs[r].state))
       IN  Assign(r, RunYield(r, [final_response |-> text,
                                  messages |-> << [type |-> "ai",
                                                   content |-> <<text>>] >>],
                              Edge(runs[r].node)))

\* combine_results of the run r: llm.invoke raises, the run ends.
RunCombineRaise(r, e) ==
    /\ runs[r].pc = "node"
    /\ runs[r].node = "combine"
    /\ Assign(r, [runs[r] EXCEPT !.pc = "raised", !.exception = e])

\* The loop body of ask_assistant of the run r for the event yielded.
RunHandleEvent(r) ==
    /\ runs[r].pc = "event"
    /\ Assign(r, [runs[r] EXCEPT
                     !.final_state =
                         FinalStateAfter(runs[r].final_state,
                                         runs[r].event.node_output),
                     !.node = runs[r].next_node,
                     !.pc = IF runs[r].next_node = "END"
                            THEN "finish" ELSE "node"])

\* ask_assistant of the run r after the loop: total, response, the return.
RunFinish(r) ==
    /\ runs[r].pc = "finish"
    /\ LET t == [runs[r].timing EXCEPT
                    !.total = Seconds(clock - runs[r].start_time)]
       IN  Assign(r, [runs[r] EXCEPT
                         !.pc = "returned",
                         !.end_time = clock,
                         !.timing = t,
                         !.result = [response |-> ResponseOf(runs[r].final_state),
                                     timing |-> t]])

\* time.time() advances while some run is in ask_assistant.
RunTick ==
    /\ \E r \in Runs : runs[r].pc \notin {"idle", "returned", "raised"}
    /\ clock < MaxTime
    /\ clock' = clock + 1
    /\ UNCHANGED << oracle, driver, runs, shared_graph, graph_count >>

NextRuns ==
    \/ \E r \in Runs, q \in SessionQueries : RunCall(r, q)
    \/ \E r \in Runs : GetTest(r)
    \/ \E r \in Runs : GetCreate(r)
    \/ \E r \in Runs : GetReturn(r)
    \/ \E r \in Runs : RunAnalyze(r)
    \/ \E r \in Runs : RunParallelSubmit(r)
    \/ \E r \in Runs, a \in Agents : RunWorkerReturn(r, a)
    \/ \E r \in Runs, a \in Agents, e \in BackendErrors : RunWorkerRaise(r, a, e)
    \/ \E r \in Runs, a \in Agents : RunCollect(r, a)
    \/ \E r \in Runs : RunParallelReturn(r)
    \/ \E r \in Runs : RunSingleReturn(r)
    \/ \E r \in Runs, e \in BackendErrors : RunSingleRaise(r, e)
    \/ \E r \in Runs : RunCombineReturn(r)
    \/ \E r \in Runs, e \in SynthErrors : RunCombineRaise(r, e)
    \/ \E r \in Runs : RunHandleEvent(r)
    \/ \E r \in Runs : RunFinish(r)
    \/ RunTick

\* Two sessions calling ask_assistant concurrently, the graph cached in
\* _cached_orchestrator.
SpecRuns == Init /\ [][NextRuns]_vars

\* ------------------------------------------- OracleDirectTool.execute_query
\* The steps of the try block made on the connection, in order: conn.cursor(),
\* cursor.execute(), cursor.fetchall() with the conversion of the rows.
AfterStep(at) ==
    IF at = "connected" THEN "cursor"
    ELSE IF at = "cursor" THEN "executed"
    ELSE "fetched"

\* str(e) of the exception the step made at `at` raises.
ErrorAt(at) ==
    IF at = "try" THEN "error: could not connect"
    ELSE IF at = "connected" THEN "error: cursor"
    ELSE IF at = "cursor" THEN "error: execute"
    ELSE "error: fetch"

\* execute_query is called: _get_connection_pool() returns the cached pool,
\* or on its first call creates it (`created` is "pool") or fails to and
\* caches None (`created` is "none").
ExecuteQuery(created) ==
    /\ oq_pc = "idle"
    /\ oq_calls < MaxCalls
    /\ oq_calls' = oq_calls + 1
    /\ pool' = IF pool = "uncreated" THEN created ELSE pool
    /\ oq_pc' = "try"
    /\ oq_result' = None
    /\ UNCHANGED << driver, concurrent, held, unreferenced >>

\* pool.acquire(), or oracledb.connect(...) when there is no pool, returns a
\* connection.
Acquire ==
    /\ oq_pc = "try"
    /\ oq_pc' = "connected"
    /\ held' = held + 1
    /\ UNCHANGED << driver, concurrent, pool, unreferenced, oq_result, oq_calls >>

\* pool.acquire() or oracledb.connect(...) raises: no connection was
\* obtained, the except branch returns the error dict.
AcquireRaise ==
    /\ oq_pc = "try"
    /\ oq_pc' = "idle"
    /\ oq_result' = ErrorAt(oq_pc)
    /\ UNCHANGED << driver, concurrent, pool, held, unreferenced, oq_calls >>

\* The next step on the connection succeeds.
StepOk ==
    /\ oq_pc \in {"connected", "cursor", "executed"}
    /\ oq_pc' = AfterStep(oq_pc)
    /\ UNCHANGED << driver, concurrent, pool, held, unreferenced, oq_result, oq_calls >>

\* The next step on the connection raises: an except branch returns the
\* error dict; neither branch releases or closes the connection, and the
\* local conn goes out of scope with the connection still acquired.
StepRaise ==
    /\ oq_pc \in {"connected", "cursor", "executed"}
    /\ oq_pc' = "idle"
    /\ oq_result' = ErrorAt(oq_pc)
    /\ unreferenced' = unreferenced + 1
    /\ UNCHANGED << driver, concurrent, pool, held, oq_calls >>

\* cursor.close(), then pool.release(conn) or conn.close(), and the success
\* dict is returned.
ReleaseAndReturn ==
    /\ oq_pc = "fetched"
    /\ oq_pc' = "idle"
    /\ held' = held - 1
    /\ oq_result' = "success"
    /\ UNCHANGED << driver, concurrent, pool, unreferenced, oq_calls >>

\* The interpreter destroys a connection object nothing refers to; if this
\* happens, and when, is up to the interpreter and the driver.
Finalize ==
    /\ unreferenced > 0
    /\ unreferenced' = unreferenced - 1
    /\ held' = held - 1
    /\ UNCHANGED << driver, concurrent, pool, oq_pc, oq_result, oq_calls >>

NextOracle ==
    \/ \E created \in {"pool", "none"} : ExecuteQuery(created)
    \/ Acquire
    \/ AcquireRaise
    \/ StepOk
    \/ StepRaise
    \/ ReleaseAndReturn
    \/ Finalize

\* Calls of OracleDirectTool.execute_query, one after the other.
SpecOracle == Init /\ [][NextOracle]_vars

\* ================================================================== claims
\* The analyze node has completed: state.agents_to_call is the routing
\* decision of the run.
Routed == pc = "event" \/ events # <<>>

Decision == state.agents_to_call

\* ask_assistant returned (and, under process_query, the result was shown).
Returned == pc = "returned" \/ (pc = "shown" /\ exception = None)

IsPrefix(s, t) == Len(s) <= Len(t) /\ SubSeq(t, 1, Len(s)) = s

\* C1: when the routing decision has exactly one member and that agent
\* raises, the exception is absorbed: ask_assistant does not raise it.
C1_SingleFailureAbsorbed ==
    (Routed /\ Len(Decision) = 1 /\ backend[Decision[1]] = "raised")
        => exception \notin BackendErrors

\* C2: the parallel node yields one outcome per agent for every combination
\* of success and failure: the text an agent returned, unchanged, and the
\* empty value for an agent that raised.
C2_ParallelOutcomes ==
    (pc = "event" /\ event.node_name = "parallel") =>
        /\ DOMAIN event.node_output = {"doc_results", "code_results"}
        /\ \A a \in Agents :
              /\ backend[a] \in {"returned", "raised"}
              /\ event.node_output[ResultKey(a)] =
                     (IF backend[a] = "returned" THEN future[a] ELSE "")
              /\ state[ResultKey(a)] = event.node_output[ResultKey(a)]

\* C2 witness: code_query returned its text first, then doc_search raised.
C2_Witness ==
    /\ pc = "event"
    /\ event.node_name = "parallel"
    /\ finished = <<"code_query", "doc_search">>
    /\ backend["doc_search"] = "raised"
    /\ backend["code_query"] = "returned"
    /\ event.node_output.code_results = "code text"
    /\ event.node_output.doc_results = ""

\* C3: "show me code for a binary search" routes to code_query alone, the
\* run takes the single-agent path and the timing of doc_search stays zero.
C3_ShowMeCodeSingleAgent ==
    (query = ShowMeCodeQuery /\ Routed) =>
        /\ Decision = <<"code_query">>
        /\ "parallel" \notin Range(events)
        /\ (Returned => result.timing.doc_search = 0)

\* Some keyword of words occurs in the lower-cased query.
HasKeyword(words, q) == \E w \in Range(words) : Contains(w, Lower(q))

\* C4: the routing decision follows the reference rule: an agent is called
\* iff the lower-cased query has a keyword of its set or no keyword at all.
C4_RoutingRule ==
    Routed =>
        LET docs == HasKeyword(DocKeywords, query)
            code == HasKeyword(CodeKeywords, query)
        IN  /\ ("doc_search" \in Range(Decision)) <=> (docs \/ (~docs /\ ~code))
            /\ ("code_query" \in Range(Decision)) <=> (code \/ (~docs /\ ~code))
            /\ (~docs /\ ~code) => Decision = <<"doc_search", "code_query">>
            /\ (docs /\ ~code) => Decision = <<"doc_search">>
            /\ (~docs /\ code) => Decision = <<"code_query">>
            /\ (docs /\ code) => Decision = <<"doc_search", "code_query">>

\* C4 witness: the blank query has no keyword and is routed to both agents.
C4_Witness ==
    /\ Routed
    /\ query = <<" ">>
    /\ ~HasKeyword(DocKeywords, query)
    /\ ~HasKeyword(CodeKeywords, query)
    /\ Decision = <<"doc_search", "code_query">>

\* C5: the routing decision is never empty and has no duplicate agent, so
\* the graph never goes from analyze directly to combine.
C5_DecisionNonEmpty ==
    /\ Routed =>
          /\ Decision # <<>>
          /\ Range(Decision) \subseteq Agents
          /\ Cardinality(Range(Decision)) = Len(Decision)
    /\ (pc = "event" /\ event.node_name = "analyze") => next_node # "combine"
    /\ events = <<"analyze">> => node # "combine"

\* C5 witness: the empty query was analyzed and routed to the parallel node.
C5_Witness ==
    /\ query = <<>>
    /\ events = <<"analyze">>
    /\ Decision = <<"doc_search", "code_query">>
    /\ node = "parallel"

\* C6: the routing decision of a query is the one of the query upper-cased.
C6_CaseInsensitive ==
    Routed => Decision = analyze_query(Upper(query))

\* C7: in a run routed to both agents, the events consumed by ask_assistant
\* are analyze, parallel, combine, in this order, one of each.
C7_TwoAgentEvents ==
    (Routed /\ Len(Decision) = 2) =>
        /\ IsPrefix(events, <<"analyze", "parallel", "combine">>)
        /\ Returned => events = <<"analyze", "parallel", "combine">>

\* C7 witness: a returned run in which code_query finished before doc_search.
C7_Witness ==
    /\ pc = "returned"
    /\ finished = <<"code_query", "doc_search">>
    /\ events = <<"analyze", "parallel", "combine">>

StatusLabels == {status_calls[i].status : i \in 1..Len(status_calls)}

\* C8 as stated: every status label passed to the callback is one of
\* queued, running, complete, failed.
C8_StatusEnum ==
    StatusLabels \subseteq {"queued", "running", "complete", "failed"}

\* C8 as amended: every status label passed to the callback is one of
\* analyzing, routing, running, complete, combining.
C8_StatusLabels ==
    StatusLabels \subseteq
        {"analyzing", "routing", "running", "complete", "combining"}

\* C8 witness: a returned run whose callback saw all five labels.
C8_Witness ==
    /\ pc = "returned"
    /\ StatusLabels = {"analyzing", "routing", "running", "complete", "combining"}

IsAgentCall(c) == c.agent \in {"Doc Search Agent", "Code Query Agent"}

AgentCalls == SelectSeq(status_calls, IsAgentCall)

\* C9: in the parallel path no status call about a backend agent is made
\* before both invocations have completed, the calls for the two agents come
\* together, and every call is made on the driving thread.
C9_NoPartialCompletion ==
    (Routed /\ Len(Decision) = 2) =>
        /\ \A i \in 1..Len(status_calls) : status_calls[i].thread = "driver"
        /\ Len(AgentCalls) > 0 =>
              /\ \A a \in Agents : backend[a] \in {"returned", "raised"}
              /\ {AgentCalls[i].agent : i \in 1..Len(AgentCalls)} =
                     {"Doc Search Agent", "Code Query Agent"}

\* C9 witness: the calls for both agents were made after the fan-out.
C9_Witness ==
    /\ Routed
    /\ Len(Decision) = 2
    /\ events = <<"analyze", "parallel">>
    /\ Len(AgentCalls) = 4

SynthesisFailed == exception \in SynthErrors

\* C10: a failed synthesis call is not retried, leaves ask_assistant as an
\* exception with no response returned, and process_query shows it as an
\* error message.
C10_SynthesisFailureFatal ==
    /\ synth_calls <= 1
    /\ SynthesisFailed =>
          /\ pc \in {"raised", "shown"}
          /\ synth_calls = 1
          /\ result.response = None
          /\ pc = "shown" =>
                /\ session_messages[Len(session_messages)] =
                       [role |-> "assistant",
                        content |-> <<"Error processing query: ", exception>>]
                /\ agent_activity[Len(agent_activity)].status = "failed"

\* C10 witness: process_query showed the error of a failed synthesis call.
C10_Witness ==
    /\ pc = "shown"
    /\ SynthesisFailed
    /\ caller = "process_query"

\* The result of an agent's invocation as the graph state keeps it: the
\* text it returned, the empty string if it raised.
Outcome(a) == IF backend[a] = "returned" THEN future[a] ELSE ""

\* What the synthesis prompt shows for an agent with outcome text.
Rendered(a, text) ==
    IF text # "" THEN text
    ELSE IF a = "doc_search" THEN "No documentation found."
    ELSE "No code examples found."

\* The parallel node has returned.
FanOutOver ==
    (pc = "event" /\ event.node_name = "parallel") \/ "parallel" \in Range(events)

\* C11: when an agent of a two-agent run fails, the failure does not end
\* the run, combine is the next node, and the synthesis prompt shows the text
\* of each agent that returned one and the placeholder, never the error
\* text, for each agent that raised.
C11_DegradedSynthesis ==
    (Routed /\ Len(Decision) = 2 /\ \E a \in Agents : backend[a] = "raised") =>
        /\ exception \notin BackendErrors
        /\ pc = "raised" => SynthesisFailed
        /\ events = <<"analyze", "parallel">> => node = "combine"
        /\ synth_calls = 1 =>
              /\ synthesis_prompt.question = query
              /\ synthesis_prompt.documentation =
                     Rendered("doc_search", Outcome("doc_search"))
              /\ synthesis_prompt.code_examples =
                     Rendered("code_query", Outcome("code_query"))
              /\ synthesis_prompt.documentation \notin BackendErrors
              /\ synthesis_prompt.code_examples \notin BackendErrors

\* C11 witness: doc_search raised, code_query returned its text, the prompt
\* showed the placeholder and the text, and ask_assistant returned.
C11_Witness ==
    /\ pc = "returned"
    /\ backend["doc_search"] = "raised"
    /\ backend["code_query"] = "returned"
    /\ synthesis_prompt.documentation = "No documentation found."
    /\ synthesis_prompt.code_examples = "code text"
    /\ result.response = "answer"

\* C13: the loop body for the event of the parallel node (the step that
\* consumes the event) gives each agent half of the duration measured for
\* the node, the same to both.
C13_EvenSplit ==
    [][(pc = "event" /\ event.node_name = "parallel" /\ events' # events) =>
           /\ timing'.doc_search = timing'.code_query
           /\ timing'.doc_search + timing'.code_query =
                  Seconds(now - node_start_time)
           /\ (now - node_start_time > 0) =>
                  (timing'.doc_search > 0 /\ timing'.code_query > 0)]_vars

\* C13 witness: the Oracle query ran the parallel node for one clock unit and
\* each agent was given half a unit.
C13_Witness ==
    /\ query = OracleQuery
    /\ events = <<"analyze", "parallel">>
    /\ timing.doc_search = HalfOf(1)
    /\ timing.code_query = HalfOf(1)

\* C14: the outcome mapping, the synthesis prompt and the response are
\* functions of the query and of what the agents and the synthesis call
\* returned or raised; the order of completion has no part in them.
C14_OrderIndependent ==
    (Routed /\ Len(Decision) = 2) =>
        /\ FanOutOver =>
              /\ state.doc_results = Outcome("doc_search")
              /\ state.code_results = Outcome("code_query")
        /\ (pc = "event" /\ event.node_name = "parallel") =>
              event.node_output =
                  [doc_results |-> Outcome("doc_search"),
                   code_results |-> Outcome("code_query")]
        /\ synth_calls = 1 =>
              synthesis_prompt =
                  [question |-> query,
                   documentation |-> Rendered("doc_search", Outcome("doc_search")),
                   code_examples |-> Rendered("code_query", Outcome("code_query"))]
        /\ Returned => result.response = state.final_response

\* C14 witness: both agents returned their texts, doc_search first, and the
\* run returned the synthesized answer.
C14_Witness ==
    /\ pc = "returned"
    /\ finished = <<"doc_search", "code_query">>
    /\ state.doc_results = "doc text"
    /\ state.code_results = "code text"
    /\ result.response = "answer"

\* C19: the parallel node returns only when every invocation it dispatched
\* has returned or raised and was handled by the loop; no worker runs once
\* the graph has gone on to combine.
C19_JoinsAll ==
    (Routed /\ Len(Decision) = 2) =>
        /\ FanOutOver =>
              /\ \A a \in Agents : backend[a] \in {"returned", "raised"}
              /\ collected = Dispatched(Decision)
              /\ Range(finished) = Dispatched(Decision)
        /\ node = "combine" => \A a \in Agents : backend[a] # "running"

\* C19 witness: doc_search finished first by raising, code_query returned
\* afterwards and its text is in the output of the node.
C19_Witness ==
    /\ pc = "event"
    /\ event.node_name = "parallel"
    /\ finished = <<"doc_search", "code_query">>
    /\ backend["doc_search"] = "raised"
    /\ backend["code_query"] = "returned"
    /\ event.node_output.code_results = "code text"

\* C12: a failure of a tracing call never affects the run: it is caught and
\* ignored, so ask_assistant never raises the tracing call's exception.
C12_TracingFailureIgnored == exception \notin TraceErrors

\* C17: the node that follows analyze is fixed by the size of the routing
\* decision: combine for the empty decision (the run goes on, it does not
\* fail), the node of the one agent for a decision of one, parallel for a
\* decision of two or more.
C17_RouteBySize ==
    /\ (pc = "event" /\ event.node_name = "analyze") =>
          LET d == event.node_output.agents_to_call
          IN  /\ Len(d) = 0 => next_node = "combine"
              /\ Len(d) = 1 => next_node = d[1] /\ next_node \in Agents
              /\ Len(d) >= 2 => next_node = "parallel"
    /\ (events = <<"analyze">> /\ pc \in {"node", "join"}) =>
          /\ Len(Decision) = 0 => node = "combine"
          /\ Len(Decision) = 1 => node = Decision[1]
          /\ Len(Decision) >= 2 => node = "parallel"

\* C17 witness: a run whose decision was empty went from analyze directly to
\* combine and returned.
C17_Witness ==
    /\ pc = "returned"
    /\ Decision = <<>>
    /\ events = <<"analyze", "combine">>

\* The nodes a run with routing decision d goes through.
PathOf(d) ==
    <<"analyze">>
        \o (IF Len(d) = 0 THEN <<>>
            ELSE IF Len(d) = 1 THEN <<d[1]>> ELSE <<"parallel">>)
        \o <<"combine">>

Ended == pc \in {"returned", "raised", "shown"}

\* C18: every run goes analyze, then one of the agent nodes (or none), then
\* combine, then ends: the nodes run in this order, combine makes at most one
\* synthesis call, and a run that has ended has executed combine and made
\* its synthesis call.
C18_RunShape ==
    /\ events # <<>> => IsPrefix(events, PathOf(Decision))
    /\ synth_calls <= 1
    /\ Returned => events # <<>> /\ events = PathOf(Decision)
    /\ Ended => synth_calls = 1

\* The workers of the run whose agent call is in progress.
Running == {a \in Agents : backend[a] = "running"}

\* C20: the only concurrency of a run is the fan-out of the parallel node:
\* at most MaxWorkers workers run at a time, every agent is dispatched at most
\* once and, in the parallel node, exactly the agents of the routing
\* decision are dispatched; no worker runs while analyze, a single-agent
\* node or combine runs, nor after the run has ended.
C20_BoundedFanOut ==
    /\ Cardinality(Running) <= MaxWorkers
    /\ \A a \in Agents : submitted[a] <= 1
    /\ pc = "join" =>
          /\ node = "parallel"
          /\ \A a \in Agents :
                 submitted[a] = IF a \in Range(Decision) THEN 1 ELSE 0
    /\ Running # {} => (pc = "join" /\ node = "parallel")
    /\ (pc = "node" /\ node \in {"analyze", "doc_search", "code_query", "combine"})
          => Running = {}
    /\ (Routed /\ Len(Decision) < 2) => \A a \in Agents : submitted[a] = 0

\* C20 witness: both workers of a two-agent run are running at once, each
\* dispatched once.
C20_Witness ==
    /\ pc = "join"
    /\ Running = Agents
    /\ \A a \in Agents : submitted[a] = 1
    /\ Decision = <<"doc_search", "code_query">>

\* C15 as stated: create_orchestrator_agent executes at most once, and the
\* callers of get_orchestrator_agent all receive the same graph.
C15_CreatedOnce ==
    /\ graph_count <= 1
    /\ \A r \in Runs, o \in Runs :
           (runs[r].orchestrator # 0 /\ runs[o].orchestrator # 0)
               => runs[r].orchestrator = runs[o].orchestrator

\* The run r is past get_orchestrator_agent: its stream has started.
InGraph(r) == runs[r].pc \notin {"idle", "get", "create", "cached"}

\* What the run r holds is what its own query and its own agents produced.
OwnValues(r) ==
    LET L == runs[r]
        q == L.query
        answer == AnswerFor([question |-> q])
    IN  InGraph(r) =>
          /\ L.orchestrator # 0
          /\ L.state.query = q
          /\ L.state.agents_to_call \in {<<>>, analyze_query(q)}
          /\ \A a \in Agents :
                 /\ L.backend[a] = "returned" => L.future[a] = AgentTextFor(a, q)
                 /\ L.par_results[ResultKey(a)] =
                        IF a \in L.collected /\ L.backend[a] = "returned"
                        THEN AgentTextFor(a, q) ELSE ""
                 /\ L.state[ResultKey(a)] \in {"", AgentTextFor(a, q)}
                 /\ L.state[ResultKey(a)] # "" => L.backend[a] = "returned"
          /\ L.state.final_response \in {"", answer}
          /\ L.pc \in {"finish", "returned"} =>
                 /\ L.final_state.dict.agents_to_call = analyze_query(q)
                 /\ L.final_state.dict.final_response = answer
          /\ L.pc = "returned" =>
                 /\ L.result.response = answer
                 /\ L.start_time <= L.end_time
                 /\ L.result.timing.total = Seconds(L.end_time - L.start_time)

\* C16: concurrent runs through the cached graph are isolated: in every
\* interleaving each run's state, routing decision, agent outcomes, fan-out
\* results, response and timing are the ones of its own query and its own
\* agents, and a step of one run leaves the locals of the other unchanged.
C16_RunsIsolated ==
    /\ [](\A r \in Runs : OwnValues(r))
    /\ [][\A r \in Runs, o \in Runs :
             (o # r /\ runs'[r] # runs[r]) => runs'[o] = runs[o]]_vars

\* C16 witness: two runs with different queries are in the graph at once,
\* one in the join of its fan-out with the doc_search result collected, the
\* other with the event of its single code_query node pending.
C16_Witness ==
    \E r \in Runs, o \in Runs :
        /\ runs[r].pc = "join"
        /\ runs[r].query = OracleQuery
        /\ runs[r].par_results.doc_results = "doc text (oracle)"
        /\ runs[o].pc = "event"
        /\ runs[o].event.node_name = "code_query"
        /\ runs[o].state.code_results = "code text"

\* The stage a status call reports on: 0 the start of the run, 1 analyze,
\* 2 the agents, 3 combine, 4 the end of the run.
StageRank(c) ==
    IF IsAgentCall(c) THEN 2
    ELSE IF c.status = "analyzing" THEN 0
    ELSE IF c.status = "routing" THEN 1
    ELSE IF c.status = "combining" THEN 3
    ELSE 4

CallRanks == {StageRank(status_calls[i]) : i \in 1..Len(status_calls)}

\* C21: the observer receives the stage events in program order and
\* without overlap: the calls are ordered analyze, agents, combine, and
\* while a node works the events of the nodes before it have all been
\* delivered and no event of it or of a later node has.
C21_StageEventsOrdered ==
    status_callback =>
        /\ \A i \in 1..Len(status_calls), j \in 1..Len(status_calls) :
               i < j => StageRank(status_calls[i]) <= StageRank(status_calls[j])
        /\ (pc \in {"node", "join"} /\ node = "analyze") => CallRanks = {0}
        /\ (pc \in {"node", "join"} /\ node \in Agents \cup {"parallel"})
               => CallRanks = {0, 1}
        /\ (pc = "node" /\ node = "combine") =>
               CallRanks = IF Decision = <<>> THEN {0, 1} ELSE {0, 1, 2}
        /\ \A i \in 1..Len(status_calls) :
               IsAgentCall(status_calls[i]) =>
                   \A a \in Dispatched(Decision) : backend[a] # "running"

\* C21 witness: the observer of a returned two-agent run received the
\* events of analyze, of the fan-out and of combine, in this order.
C21_Witness ==
    /\ pc = "returned"
    /\ status_callback
    /\ [i \in 1..Len(status_calls) |-> StageRank(status_calls[i])]
           = <<0, 1, 2, 2, 2, 2, 3, 4>>

\* An agent call of the run never returns.
AgentHung == \E a \in Agents : backend[a] = "hung"

\* Some blocking call of the run never returns.
Hung == AgentHung \/ pc = "hung"

\* C22: a run ends if and only if its blocking calls do: a started run whose
\* calls all return or raise ends (ask_assistant returns or raises); a run
\* with an agent call that never returns never reaches combine and never
\* ends, and neither does a run whose synthesis call never returns.
C22_EndsIffCallsEnd ==
    /\ (pc = "call") ~> (Ended \/ Hung)
    /\ [](AgentHung =>
             /\ "combine" \notin Range(events)
             /\ node # "combine"
             /\ synth_calls = 0)
    /\ [](Hung => ~Ended /\ pc \in {"join", "hung"})

\* C22 witness: in a two-agent run the doc_search call never returns, the
\* code_query result was collected and the join is still waiting when the
\* clock has run out.
C22_Witness ==
    /\ pc = "join"
    /\ backend["doc_search"] = "hung"
    /\ collected = {"code_query"}
    /\ now = MaxTime

\* The agent a status call is about.
AgentOf(c) == IF c.agent = "Doc Search Agent" THEN "doc_search" ELSE "code_query"

\* C23: the observer is told that an agent is complete only when the
\* invocation of that agent returned a result, never after one that raised.
C23_CompleteOnlyOnSuccess ==
    \A i \in 1..Len(status_calls) :
        (IsAgentCall(status_calls[i]) /\ status_calls[i].status = "complete")
            => backend[AgentOf(status_calls[i])] = "returned"

\* C24: execute_query never leaks a connection: whenever it has returned,
\* with the success dict or with the error dict, no connection is held out
\* of the pool (or left open).
C24_NoConnectionLeak == oq_pc = "idle" => held = 0

\* C25: whenever ask_assistant returns, the response is the text the
\* synthesis call of the run returned, the empty text included: the
\* accumulated final_state holds the final_response of combine, no other
\* node writes final_response, and the fallback text is never returned.
C25_ResponseIsSynthesis ==
    /\ (pc \in {"node", "join"} \/ (pc = "event" /\ event.node_name # "combine"))
          => state.final_response = ""
    /\ pc \in {"finish", "returned"} =>
          /\ ~final_state.none
          /\ "final_response" \in DOMAIN final_state.dict
          /\ final_state.dict.final_response = state.final_response
    /\ Returned =>
          /\ synth_calls = 1
          /\ result.response = state.final_response
          /\ result.response \in SynthTexts
          /\ result.response # NoAnswer

\* C25 witness: the synthesis call returned the empty text and ask_assistant
\* returned it, not the fallback.
C25_Witness ==
    /\ pc = "returned"
    /\ synth_calls = 1
    /\ state.final_response = ""
    /\ result.response = ""

TimingSum(t) == t.orchestrator_analyze + t.doc_search + t.code_query + t.combine

\* C26: with a non-decreasing clock the timing dict is consistent: every
\* entry is non-negative at every moment, and in the dict ask_assistant
\* returns total is at least the sum of the four node entries and the entry
\* of an agent that was not invoked is 0.
C26_TimingConsistent ==
    /\ \A k \in DOMAIN timing : timing[k] >= 0
    /\ Routed => \A a \in Agents : a \notin Range(Decision) => timing[a] = 0
    /\ Returned =>
          /\ result.timing = timing
          /\ \A k \in DOMAIN result.timing : result.timing[k] >= 0
          /\ result.timing.total >= TimingSum(result.timing)
          /\ \A a \in Agents :
                 a \notin Range(Decision) => result.timing[a] = 0

\* C26 witness: a returned run of code_query alone in which the agent took
\* one clock unit and another unit passed outside the nodes: total exceeds
\* the sum of the entries and the doc_search entry is 0.
C26_Witness ==
    /\ pc = "returned"
    /\ Decision = <<"code_query">>
    /\ result.timing.code_query = Seconds(1)
    /\ result.timing.doc_search = 0
    /\ TimingSum(result.timing) = Seconds(1)
    /\ result.timing.total = Seconds(2)

====
